---- MODULE Spec2Model ----
(***************************************************************************)
(* A model of fidibo.py: the seat-availability pipeline of the scraper     *)
(* (seatmap_index, fetch_seat_states, summarize_session_seats, scrape),    *)
(* the ranking done by main and the chunking of telegram_send_many.        *)
(*                                                                         *)
(* Python values are encoded as follows.                                   *)
(*   - An optional scalar is a record [t, v]: t = "none" is None, and the  *)
(*     other tags name the Python type ("num", "str", ...).                *)
(*   - A dict whose iteration order matters (seat_idx) is a sequence of    *)
(*     entries with pairwise distinct keys, in insertion order.            *)
(*   - A dict used for lookup only (states) is a function on its key set.  *)
(*   - A function that may raise returns a record whose field `raised`     *)
(*     tells whether an exception left it.                                 *)
(* Fields the code only copies through (display_name, week_day, ...) are   *)
(* left out of the records.                                                *)
(***************************************************************************)
EXTENDS Integers, Sequences, FiniteSets, TLC

VARIABLES
    seatmap_json,   \* SpecIndex / SpecSummarize: the seatmap document (input)
    seat_idx,       \* result of seatmap_index: [raised, idx]
    states,         \* summarize_session_seats: the state mapping (input)
    summary,        \* result of summarize_session_seats
    spc,            \* position of the seat-processing run
    coll,           \* fetch_seat_states: its locals, its status and the pages
                    \* it requested with the response to each
    text,           \* telegram_send_many: the text (a sequence of characters)
    max_len,        \* telegram_send_many: the chunk size
    tlines,         \* text.splitlines()
    li,             \* index of the next line of the for loop
    chunk,          \* the locals buf and size
    sent,           \* the texts telegram_send was called with, in order
    tpc,            \* position of telegram_send_many
    scraped,        \* main: the list scrape returned
    ranked,         \* main: the list after shows.sort
    rpc,            \* position of main
    pc,             \* scrape: position
    show_urls,      \* scrape: the URLs discovered, each named by its event id
    ui,             \* scrape: index of the current URL
    cur,            \* scrape: the locals of the current iteration
    shows,          \* scrape: the result list
    log             \* scrape: the requests issued, with how each ended

seatvars == <<seatmap_json, seat_idx, states, summary, spc>>
sendvars == <<text, max_len, tlines, li, chunk, sent, tpc>>
rankvars == <<scraped, ranked, rpc>>
scrapevars == <<pc, show_urls, ui, cur, shows, log>>
vars == <<seatvars, coll, sendvars, rankvars, scrapevars>>

---------------------------------------------------------------------------
(* Bounds of the model. *)
MaxSeats == 3
MaxRecords == 2
MaxTotal == 100
MaxTextLen == 5
MaxChunk == 3
MaxEvents == 3
MaxShows == 2
MaxSessions == 2

(* Program constants. *)
STATE_SOLD == 3
STATE_LOCKED == 4
limit == 50
PRIOR_WEIGHT == 20
PRIOR_MEAN_X10 == 35    \* prior_mean = 3.5; ratings are held in tenths

---------------------------------------------------------------------------
(* Python scalars. *)
None == [t |-> "none", v |-> 0]
Num(n) == [t |-> "num", v |-> n]
NotNum == [t |-> "str", v |-> 0]

NoCur == [t |-> "none", v |-> ""]
Cur(s) == [t |-> "str", v |-> s]

\* seat_summary = None
NoSummary == [total_seats_in_map |-> -1]

\* Python truthiness of an optional string: None and "" are falsy.
Truthy(c) == c.t = "str" /\ c.v # ""

\* isinstance(p, (int, float))
IsNumber(p) == p.t = "num"

\* int(x) on a JSON value: an int is kept, a string of digits is parsed, a
\* missing key (KeyError), None (TypeError) and any other string (ValueError)
\* raise.
IntRaises(x) == x.t \notin {"int", "numstr"}
IntOf(x) == x.v

Range(s) == {s[i] : i \in 1..Len(s)}

RECURSIVE Concat(_)
Concat(ss) == IF ss = <<>> THEN <<>> ELSE Head(ss) \o Concat(Tail(ss))

---------------------------------------------------------------------------
(* seatmap_index *)

\* idx[sid] = entry on an insertion-ordered dict: a key already present keeps
\* its position and takes the new value.
DictPut(idx, entry) ==
    IF \E i \in 1..Len(idx) : idx[i].seat_id = entry.seat_id
    THEN [i \in 1..Len(idx) |->
            IF idx[i].seat_id = entry.seat_id THEN entry ELSE idx[i]]
    ELSE Append(idx, entry)

\* The seats of a layout in the order the four nested loops visit them, each
\* with the names of its zone, block and row.
RowSeats(z, b, row) ==
    [i \in 1..Len(row.seats) |->
        [seat |-> row.seats[i], zone |-> z.name, block |-> b.name,
         row |-> row.name]]
BlockSeats(z, b) ==
    Concat([i \in 1..Len(b.rows) |-> RowSeats(z, b, b.rows[i])])
ZoneSeats(z) ==
    Concat([i \in 1..Len(z.blocks) |-> BlockSeats(z, z.blocks[i])])
LayoutSeats(layout) ==
    Concat([i \in 1..Len(layout.zones) |-> ZoneSeats(layout.zones[i])])

\* The loop body, run over the visited seats: int(seat["id"]) raises out of
\* the whole function, otherwise the entry is stored.
RECURSIVE IndexSeats(_, _)
IndexSeats(visited, idx) ==
    IF visited = <<>> THEN [raised |-> FALSE, idx |-> idx]
    ELSE LET s == Head(visited) IN
         IF IntRaises(s.seat.id) THEN [raised |-> TRUE, idx |-> <<>>]
         ELSE IndexSeats(Tail(visited),
                 DictPut(idx, [seat_id |-> IntOf(s.seat.id),
                               zone |-> s.zone, block |-> s.block,
                               row |-> s.row,
                               price |-> s.seat.price,
                               currency |-> s.seat.currency]))

\* seatmap_json is the list data.result (empty when absent or null).
SeatmapIndex(doc) ==
    IF doc = <<>> THEN [raised |-> FALSE, idx |-> <<>>]
    ELSE IndexSeats(LayoutSeats(doc[1]), <<>>)

---------------------------------------------------------------------------
(* summarize_session_seats *)

Acc0 == [available |-> 0, sold |-> 0, locked |-> 0, other |-> 0,
         prices |-> <<>>, currency |-> NoCur]

\* SeatStep with `if not st` for `if st is None`: code 0 counts as available.
SeatStepFalsyState(acc, info, st) ==
    IF info.seat_id \notin DOMAIN st \/ st[info.seat_id] = 0 THEN
        [acc EXCEPT !.available = @ + 1,
                    !.prices = IF IsNumber(info.price)
                               THEN Append(@, info.price.v) ELSE @,
                    !.currency = IF @ = NoCur /\ Truthy(info.currency)
                                 THEN info.currency ELSE @]
    ELSE IF st[info.seat_id] = STATE_SOLD THEN [acc EXCEPT !.sold = @ + 1]
    ELSE IF st[info.seat_id] = STATE_LOCKED THEN [acc EXCEPT !.locked = @ + 1]
    ELSE [acc EXCEPT !.other = @ + 1]

\* SeatStep with the currency taken from the first seat of any state.
SeatStepAnyCurrency(acc, info, st) ==
    LET a == [acc EXCEPT !.currency = IF @ = NoCur /\ Truthy(info.currency)
                                      THEN info.currency ELSE @]
    IN IF info.seat_id \notin DOMAIN st THEN
           [a EXCEPT !.available = @ + 1,
                     !.prices = IF IsNumber(info.price)
                                THEN Append(@, info.price.v) ELSE @]
       ELSE IF st[info.seat_id] = STATE_SOLD THEN [a EXCEPT !.sold = @ + 1]
       ELSE IF st[info.seat_id] = STATE_LOCKED THEN [a EXCEPT !.locked = @ + 1]
       ELSE [a EXCEPT !.other = @ + 1]

\* SeatStep with the prices of all seats collected, whatever their state.
SeatStepAllPrices(acc, info, st) ==
    LET a == [acc EXCEPT !.prices = IF IsNumber(info.price)
                                    THEN Append(@, info.price.v) ELSE @]
    IN IF info.seat_id \notin DOMAIN st THEN
           [a EXCEPT !.available = @ + 1,
                     !.currency = IF @ = NoCur /\ Truthy(info.currency)
                                  THEN info.currency ELSE @]
       ELSE IF st[info.seat_id] = STATE_SOLD THEN [a EXCEPT !.sold = @ + 1]
       ELSE IF st[info.seat_id] = STATE_LOCKED THEN [a EXCEPT !.locked = @ + 1]
       ELSE [a EXCEPT !.other = @ + 1]

\* One iteration of the loop over seat_idx.items().
SeatStep(acc, info, st) ==
    IF info.seat_id \notin DOMAIN st THEN
        [acc EXCEPT !.available = @ + 1,
                    !.prices = IF IsNumber(info.price)
                               THEN Append(@, info.price.v) ELSE @,
                    !.currency = IF @ = NoCur /\ Truthy(info.currency)
                                 THEN info.currency ELSE @]
    ELSE IF st[info.seat_id] = STATE_SOLD THEN [acc EXCEPT !.sold = @ + 1]
    ELSE IF st[info.seat_id] = STATE_LOCKED THEN [acc EXCEPT !.locked = @ + 1]
    ELSE [acc EXCEPT !.other = @ + 1]

RECURSIVE SeatLoop(_, _, _)
SeatLoop(idx, st, acc) ==
    IF idx = <<>> THEN acc
    ELSE SeatLoop(Tail(idx), st, SeatStep(acc, Head(idx), st))

\* sorted(set(prices))
RECURSIVE SortedSet(_)
SortedSet(S) ==
    IF S = {} THEN <<>>
    ELSE LET m == CHOOSE x \in S : \A y \in S : x <= y
         IN <<m>> \o SortedSet(S \ {m})

MinOf(ps) == CHOOSE x \in Range(ps) : \A y \in Range(ps) : x <= y
MaxOf(ps) == CHOOSE x \in Range(ps) : \A y \in Range(ps) : x >= y

SummarizeSessionSeats(idx, st) ==
    LET acc == SeatLoop(idx, st, Acc0) IN
    [total_seats_in_map |-> Len(idx),
     available_seats |-> acc.available,
     sold_seats_state_3 |-> acc.sold,
     locked_seats_state_4 |-> acc.locked,
     other_state_seats |-> acc.other,
     currency |-> acc.currency,
     available_min_price |->
        IF acc.prices # <<>> THEN Num(MinOf(acc.prices)) ELSE None,
     available_max_price |->
        IF acc.prices # <<>> THEN Num(MaxOf(acc.prices)) ELSE None,
     available_unique_prices |->
        IF acc.prices # <<>> THEN SortedSet(Range(acc.prices)) ELSE <<>>]

---------------------------------------------------------------------------
(* fetch_seat_states *)

\* The response to one page request: http_get raised ("http_error"),
\* safe_json gave None or an empty document ("no_json"), or a document with
\* its records data.result and its count data.total ("ok").
HttpError == [kind |-> "http_error", result |-> <<>>, total |-> 0]
NoJson == [kind |-> "no_json", result |-> <<>>, total |-> 0]
Page(result, total) == [kind |-> "ok", result |-> result, total |-> total]

Rec(sid, st) == [seat_id |-> sid, state |-> st]

\* for item in result: states[int(item["seat_id"])] = int(item["state"])
RECURSIVE MergeRecords(_, _)
MergeRecords(result, st) ==
    IF result = <<>> THEN [raised |-> FALSE, states |-> st]
    ELSE LET item == Head(result) IN
         IF IntRaises(item.seat_id) THEN [raised |-> TRUE, states |-> st]
         ELSE MergeRecords(Tail(result),
                 [i \in DOMAIN st \cup {IntOf(item.seat_id)} |->
                     IF i = IntOf(item.seat_id) THEN item.state ELSE st[i]])

\* LastPage with > for >=: one more request when the pages hold exactly total.
LastPageStrict(page, result, total) == page * limit > total \/ result = <<>>

\* if page * limit >= total or not result: break
LastPage(page, result, total) == page * limit >= total \/ result = <<>>

CollInit == [states |-> <<>>, page |-> 1, status |-> "loop", requests |-> <<>>]

\* PageStep with the exception of a failed decode left to propagate.
PageStepDecodeRaises(c, resp) ==
    LET asked == Append(c.requests, [page |-> c.page, resp |-> resp])
        m == MergeRecords(resp.result, c.states)
    IN IF resp.kind \in {"http_error", "no_json"} \/ m.raised THEN
           [c EXCEPT !.status = "raised", !.requests = asked]
       ELSE IF LastPage(c.page, resp.result, resp.total) THEN
           [c EXCEPT !.status = "returned", !.requests = asked,
                     !.states = m.states]
       ELSE
           [c EXCEPT !.page = @ + 1, !.requests = asked, !.states = m.states]

\* One iteration of the while loop, given the response to its request.
PageStep(c, resp) ==
    LET asked == Append(c.requests, [page |-> c.page, resp |-> resp])
        m == MergeRecords(resp.result, c.states)
    IN IF resp.kind = "http_error" THEN
           [c EXCEPT !.status = "raised", !.requests = asked]
       ELSE IF resp.kind = "no_json" THEN
           [c EXCEPT !.status = "returned", !.requests = asked]
       ELSE IF m.raised THEN
           [c EXCEPT !.status = "raised", !.requests = asked]
       ELSE IF LastPage(c.page, resp.result, resp.total) THEN
           [c EXCEPT !.status = "returned", !.requests = asked,
                     !.states = m.states]
       ELSE
           [c EXCEPT !.page = @ + 1, !.requests = asked, !.states = m.states]

---------------------------------------------------------------------------
(* telegram_send_many *)

NL == "\n"

\* text.splitlines(), for texts whose only line break is "\n": the lines
\* between the breaks, without a last empty line after a final break.
RECURSIVE SplitLinesFrom(_, _)
SplitLinesFrom(t, line) ==
    IF t = <<>> THEN (IF line = <<>> THEN <<>> ELSE <<line>>)
    ELSE IF Head(t) = NL THEN <<line>> \o SplitLinesFrom(Tail(t), <<>>)
    ELSE SplitLinesFrom(Tail(t), Append(line, Head(t)))
SplitLines(t) == SplitLinesFrom(t, <<>>)

\* "\n".join(buf)
RECURSIVE JoinLines(_)
JoinLines(b) ==
    IF b = <<>> THEN <<>>
    ELSE IF Len(b) = 1 THEN b[1]
    ELSE b[1] \o <<NL>> \o JoinLines(Tail(b))

\* LineStep with the line that triggers a flush left out of the next chunk.
LineStepDropsLine(c, out, line, maxlen) ==
    LET add == Len(line) + 1 IN
    IF c.size + add > maxlen /\ c.buf # <<>>
    THEN [chunk |-> [buf |-> <<>>, size |-> 0],
          sent |-> Append(out, JoinLines(c.buf))]
    ELSE [chunk |-> [buf |-> Append(c.buf, line), size |-> c.size + add],
          sent |-> out]

\* The body of the for loop: the locals (buf, size) and the messages sent
\* after one line.
LineStep(c, out, line, maxlen) ==
    LET add == Len(line) + 1 IN
    IF c.size + add > maxlen /\ c.buf # <<>>
    THEN [chunk |-> [buf |-> <<line>>, size |-> Len(line) + 1],
          sent |-> Append(out, JoinLines(c.buf))]
    ELSE [chunk |-> [buf |-> Append(c.buf, line), size |-> c.size + add],
          sent |-> out]

---------------------------------------------------------------------------
(* show_bayes_score, bayesian_rating and the sort of main *)

\* A rating is a fraction num / den of tenths, den > 0.
Frac(n, d) == [num |-> n, den |-> d]
FracLess(a, b) == a.num * b.den < b.num * a.den
FracEq(a, b) == a.num * b.den = b.num * a.den

Max2(a, b) == IF a >= b THEN a ELSE b

\* (v * R + m * C) / (v + m), for raw_avg not None
BayesianRating(raw_avg, votes) ==
    LET v == Max2(votes, 0)
        m == Max2(PRIOR_WEIGHT, 1)
    IN Frac(v * raw_avg + m * PRIOR_MEAN_X10, v + m)

NoScore == [rated |-> FALSE, average |-> None, count |-> 0]
Score(avg, n) == [rated |-> TRUE, average |-> avg, count |-> n]

ShowBayesScore(show) ==
    IF ~show.score.rated \/ show.score.average = None THEN Frac(0, 1)
    ELSE BayesianRating(show.score.average.v, show.score.count)

\* list.sort(key=..., reverse=True): descending by key, and stable (elements
\* with equal keys keep their order). Built by inserting each element, in
\* order, behind the elements whose key is not smaller.
InsertDesc(out, x) ==
    LET k == Cardinality({i \in 1..Len(out) :
                             ~FracLess(ShowBayesScore(out[i]), ShowBayesScore(x))})
    IN SubSeq(out, 1, k) \o <<x>> \o SubSeq(out, k + 1, Len(out))

RECURSIVE SortInto(_, _)
SortInto(list, out) ==
    IF list = <<>> THEN out
    ELSE SortInto(Tail(list), InsertDesc(out, Head(list)))

Reverse(q) == [i \in 1..Len(q) |-> q[Len(q) + 1 - i]]

\* The sort done as an ascending stable sort that is then reversed.
SortShowsReversed(list) == SortInto(Reverse(list), <<>>)

SortShows(list) == SortInto(list, <<>>)

---------------------------------------------------------------------------
(* scrape *)

\* The locals of one iteration of the loop over show_urls: the event id, whether
\* the show page held a UUID, the sessions kept, the score, and the position
\* of the loop over the sessions with the seat index of its session.
CurInit(e) ==
    [event |-> e, uuid |-> FALSE, sessions |-> <<>>, score |-> NoScore,
     k |-> 1, idx |-> <<>>]

SessionInfo(id, sold) == [id |-> id, is_sold_out |-> sold, seat_summary |-> NoSummary]

\* The filter of sold-out sessions that keeps every session.
KeepAllSessions(sessions) == sessions

\* [sess for sess in sessions if not sess.is_sold_out]
FilterSessions(sessions) == SelectSeq(sessions, LAMBDA x : ~x.is_sold_out)

ShowInfo(c) ==
    [event_id |-> c.event, event_uuid |-> c.uuid, sessions |-> c.sessions,
     score |-> c.score]

\* A request issued for an event (and a session of it) and how it ended:
\* "ok", "http_error" (http_get raised) or "bad_data" (the response made the
\* code raise). n and open are the numbers of sessions listed and of sessions
\* not sold out; idx and states are the arguments of the summary computed.
LogEntry(e, kind, session, end) ==
    [event |-> e, kind |-> kind, session |-> session, end |-> end,
     n |-> 0, open |-> 0, idx |-> <<>>, states |-> <<>>]

---------------------------------------------------------------------------
(* The values of the variables of a part of the program that is not run. *)

NoChunk == [buf |-> <<>>, size |-> 0]

SeatsIdle ==
    /\ seatmap_json = <<>>
    /\ seat_idx = [raised |-> FALSE, idx |-> <<>>]
    /\ states = <<>>
    /\ summary = NoSummary
    /\ spc = "idle"

SendIdle ==
    /\ text = <<>> /\ max_len = 0 /\ tlines = <<>> /\ li = 1
    /\ chunk = NoChunk /\ sent = <<>> /\ tpc = "idle"

RankIdle == scraped = <<>> /\ ranked = <<>> /\ rpc = "idle"

ScrapeIdle ==
    /\ pc = "idle" /\ show_urls = <<>> /\ ui = 1
    /\ cur = CurInit(0) /\ shows = <<>> /\ log = {}

---------------------------------------------------------------------------
(* Seat processing on its own: seatmap_index on a seatmap document, then    *)
(* summarize_session_seats on its index and a state mapping.                *)

IntId(n) == [t |-> "int", v |-> n]
NumStrId(n) == [t |-> "numstr", v |-> n]
MissingId == [t |-> "missing", v |-> 0]
NullId == [t |-> "null", v |-> 0]

Seat(id, price, currency) == [id |-> id, price |-> price, currency |-> currency]

\* (price, currency) pairs a seat record may carry.
Profiles ==
    { <<None, NoCur>>, <<Num(10), Cur("IRR")>>, <<Num(20), Cur("USD")>>,
      <<NotNum, Cur("")>>, <<None, Cur("USD")>> }

SeqsUpTo(S, n) == UNION {[1..k -> S] : k \in 0..n}

\* Documents shaped zones -> blocks -> rows -> seats around a list of seats.
OneRow(ss) ==
    [zones |-> <<[name |-> "z1", blocks |->
        <<[name |-> "b1", rows |-> <<[name |-> "r1", seats |-> ss]>>]>>]>>]
RowEach(ss) ==
    [zones |-> <<[name |-> "z1", blocks |->
        <<[name |-> "b1", rows |->
            [i \in 1..Len(ss) |-> [name |-> "r", seats |-> <<ss[i]>>]]]>>]>>]
ZoneEach(ss) ==
    [zones |-> [i \in 1..Len(ss) |->
        [name |-> "z", blocks |->
            <<[name |-> "b1", rows |->
                <<[name |-> "r1", seats |-> <<ss[i]>>]>>]>>]]]
OtherLayout == OneRow(<<Seat(IntId(9), Num(10), Cur("IRR"))>>)

\* Well-formed seats (seat i has id i) with every profile, in one row.
PricedDocs ==
    { <<OneRow([i \in 1..Len(ps) |-> Seat(IntId(i), ps[i][1], ps[i][2])])>> :
        ps \in SeqsUpTo(Profiles, MaxSeats) }

\* Seats whose identity may repeat, be a digit string, be null or be missing,
\* in every shape, with and without a second layout.
SeatIds == {IntId(1), IntId(2), NumStrId(2), MissingId, NullId}
IdDocs ==
    {<<>>} \cup
    UNION { LET ss == [i \in 1..Len(ids) |-> Seat(ids[i], Num(10), Cur("IRR"))]
            IN { <<OneRow(ss)>>, <<RowEach(ss)>>, <<ZoneEach(ss)>>,
                 <<ZoneEach(ss), OtherLayout>> } :
            ids \in SeqsUpTo(SeatIds, MaxSeats) }

\* State mappings over the seats 1..MaxSeats and one seat (99) of no seatmap.
StateCodes == {STATE_SOLD, STATE_LOCKED, 0}
StateMaps ==
    UNION { [D -> StateCodes] : D \in SUBSET (1..MaxSeats) } \cup
    UNION { {[i \in D \cup {99} |-> IF i = 99 THEN STATE_SOLD ELSE f[i]] :
                f \in [D -> StateCodes]} : D \in SUBSET (1..MaxSeats) }

InitSeats ==
    /\ coll = CollInit /\ SendIdle /\ RankIdle /\ ScrapeIdle
    /\ \/ seatmap_json \in PricedDocs /\ states \in StateMaps
       \/ seatmap_json \in IdDocs /\ states \in {<<>>, (2 :> STATE_SOLD)}
    /\ seat_idx = [raised |-> FALSE, idx |-> <<>>]
    /\ summary = NoSummary
    /\ spc = "index"

Index ==
    /\ spc = "index"
    /\ seat_idx' = SeatmapIndex(seatmap_json)
    /\ spc' = IF seat_idx'.raised THEN "raised" ELSE "summarize"
    /\ UNCHANGED <<seatmap_json, states, summary>>
    /\ UNCHANGED <<coll, sendvars, rankvars, scrapevars>>

Summarize ==
    /\ spc = "summarize"
    /\ summary' = SummarizeSessionSeats(seat_idx.idx, states)
    /\ spc' = "done"
    /\ UNCHANGED <<seatmap_json, seat_idx, states>>
    /\ UNCHANGED <<coll, sendvars, rankvars, scrapevars>>

NextSeats == Index \/ Summarize

SpecSeats == InitSeats /\ [][NextSeats]_vars

---------------------------------------------------------------------------
(* Claims about seat processing (checked under SpecSeats). *)

\* The seat ids of the index, and the entries of the AVAILABLE seats in
\* iteration order.
IdxIds == {seat_idx.idx[i].seat_id : i \in 1..Len(seat_idx.idx)}
IsAvailable(e) == e.seat_id \notin DOMAIN states
AvailableEntries == SelectSeq(seat_idx.idx, IsAvailable)

\* C4: every seat id of the seatmap index is counted in exactly one bucket:
\* AVAILABLE iff the id is absent from the state mapping, SOLD iff its code is
\* 3, LOCKED iff its code is 4, OTHER for any other code; the four counts add
\* up to total_seats_in_map.
C4_OneBucketPerSeat ==
    spc = "done" =>
        /\ summary.available_seats =
              Cardinality({id \in IdxIds : id \notin DOMAIN states})
        /\ summary.sold_seats_state_3 =
              Cardinality({id \in IdxIds \cap DOMAIN states : states[id] = 3})
        /\ summary.locked_seats_state_4 =
              Cardinality({id \in IdxIds \cap DOMAIN states : states[id] = 4})
        /\ summary.other_state_seats =
              Cardinality({id \in IdxIds \cap DOMAIN states :
                              states[id] \notin {3, 4}})
        /\ summary.total_seats_in_map = Cardinality(IdxIds)
        /\ summary.available_seats + summary.sold_seats_state_3
             + summary.locked_seats_state_4 + summary.other_state_seats
           = summary.total_seats_in_map

\* A summary of three seats, one available, one locked and one in another
\* state (code 0), with a state entry for a seat that is in no seatmap.
C4_Witness ==
    /\ spc = "done"
    /\ summary.available_seats = 1
    /\ summary.locked_seats_state_4 = 1
    /\ summary.other_state_seats = 1
    /\ 99 \in DOMAIN states

\* C10 as stated: the currency is the first non-null currency code among the
\* AVAILABLE seats in iteration order, and it is null if no seat is available
\* or no available seat carries a numeric price.
C10_FirstNonNullOrNoPriceData ==
    spc = "done" =>
        LET withCur == SelectSeq(AvailableEntries,
                                 LAMBDA e : e.currency # NoCur)
            priced == SelectSeq(AvailableEntries,
                                LAMBDA e : IsNumber(e.price))
        IN summary.currency =
              IF priced = <<>> \/ withCur = <<>> THEN NoCur
              ELSE withCur[1].currency

\* C10 amended: the currency is the first non-empty currency code among the
\* AVAILABLE seats in iteration order, whether or not those seats carry a
\* price; it is null exactly when no available seat carries a non-empty
\* currency code. Seats in another state are never selected.
C10_FirstNonEmptyOfAvailable ==
    spc = "done" =>
        LET withCur == SelectSeq(AvailableEntries,
                                 LAMBDA e : Truthy(e.currency))
        IN summary.currency =
              IF withCur = <<>> THEN NoCur ELSE withCur[1].currency

\* A sold seat with a currency comes first; the currency reported is the
\* different one of a later available seat.
C10_Witness ==
    /\ spc = "done"
    /\ \E i, j \in 1..Len(seat_idx.idx) :
          /\ i < j
          /\ ~IsAvailable(seat_idx.idx[i])
          /\ Truthy(seat_idx.idx[i].currency)
          /\ IsAvailable(seat_idx.idx[j])
          /\ seat_idx.idx[j].currency # seat_idx.idx[i].currency
          /\ summary.currency = seat_idx.idx[j].currency

\* C7: a seat record that lacks an integer identity is skipped: seatmap_index
\* raises nothing and its result holds every other seat of the first layout.
C7_SeatWithoutIdIsSkipped ==
    spc # "index" =>
        /\ ~seat_idx.raised
        /\ seatmap_json # <<>> =>
              \A i \in 1..Len(LayoutSeats(seatmap_json[1])) :
                  LET id == LayoutSeats(seatmap_json[1])[i].seat.id
                  IN ~IntRaises(id) => IntOf(id) \in IdxIds

---------------------------------------------------------------------------
(* The collector on its own, against an upstream that answers each request  *)
(* with any response.                                                       *)

Records == {Rec(IntId(1), 3), Rec(IntId(1), 4), Rec(NumStrId(2), 0)}
BadRecord == Rec(MissingId, 3)
Totals == {t \in 0..MaxTotal : t % limit = 0 \/ (t > limit /\ t % limit = 1)}
Responses ==
    {HttpError, NoJson, Page(<<BadRecord>>, 0),
     Page(<<Rec(IntId(1), 3), BadRecord>>, MaxTotal)}
    \cup {Page(r, t) : r \in SeqsUpTo(Records, MaxRecords), t \in Totals}

InitCollect ==
    coll = CollInit /\ SeatsIdle /\ SendIdle /\ RankIdle /\ ScrapeIdle

FetchPage ==
    /\ coll.status = "loop"
    /\ \E resp \in Responses : coll' = PageStep(coll, resp)
    /\ UNCHANGED <<seatvars, sendvars, rankvars, scrapevars>>

NextCollect == FetchPage

SpecCollect == InitCollect /\ [][NextCollect]_vars

---------------------------------------------------------------------------
(* Claims about the collector (checked under SpecCollect). *)

\* The records of the first n pages requested, in the order received.
RecordsOfPages(n) ==
    Concat([i \in 1..n |-> coll.requests[i].resp.result])

\* The mapping those records describe: each seat id reported, with the state
\* of its last record.
MappingOfPages(n) ==
    LET rs == RecordsOfPages(n)
        last(id) == CHOOSE i \in 1..Len(rs) :
                       /\ IntOf(rs[i].seat_id) = id
                       /\ \A j \in (i + 1)..Len(rs) : IntOf(rs[j].seat_id) # id
    IN [id \in {IntOf(rs[i].seat_id) : i \in 1..Len(rs)} |-> rs[last(id)].state]

LastRequest == coll.requests[Len(coll.requests)]
HasBadRecord(resp) ==
    \E i \in 1..Len(resp.result) : IntRaises(resp.result[i].seat_id)

\* C1 as stated: when the fetch or the parse of a page fails, the collector
\* returns the mapping accumulated from the pages already merged, and nothing
\* is raised to its caller.
C1_FailureNeverPropagates ==
    /\ coll.status # "raised"
    /\ (coll.requests # <<>> /\ LastRequest.resp.kind \in {"http_error", "no_json"})
          => /\ coll.status = "returned"
             /\ coll.states = MappingOfPages(Len(coll.requests) - 1)

\* C1 amended: when the body of a page does not decode to a document, the
\* collector returns the mapping accumulated from the pages already merged and
\* raises nothing; when the fetch of a page fails, or a record of a page lacks
\* an integer seat_id, the exception leaves the collector for its caller.
C1_PartialOnDecodeFailureOnly ==
    coll.requests # <<>> =>
        /\ LastRequest.resp.kind = "no_json" =>
              /\ coll.status = "returned"
              /\ coll.states = MappingOfPages(Len(coll.requests) - 1)
        /\ LastRequest.resp.kind = "http_error" => coll.status = "raised"
        /\ HasBadRecord(LastRequest.resp) => coll.status = "raised"
        /\ coll.status = "raised" =>
              \/ LastRequest.resp.kind = "http_error"
              \/ HasBadRecord(LastRequest.resp)

\* The second page does not decode: the collector returns what the first page
\* gave it.
C1_Witness ==
    /\ coll.status = "returned"
    /\ Len(coll.requests) = 2
    /\ LastRequest.resp.kind = "no_json"
    /\ coll.states # <<>>

MaxOfSet(S) == CHOOSE x \in S : \A y \in S : x >= y
CeilDiv(a, b) == (a + b - 1) \div b

\* C9: the pages requested are 1, 2, 3, ... in this order, each once; page
\* n + 1 is requested only if page n parsed, returned at least one record and
\* n * limit < the total page n reported; so there are never more requests
\* than ceil(total / limit) (or one), for the largest total reported, and
\* against totals of at most MaxTotal the loop has ended by then.
C9_PagesInOrderAndBounded ==
    LET n == Len(coll.requests)
        reported == {coll.requests[i].resp.total : i \in 1..n} \cup {0}
    IN /\ \A i \in 1..n : coll.requests[i].page = i
       /\ \A i \in 1..(n - 1) :
             /\ coll.requests[i].resp.kind = "ok"
             /\ coll.requests[i].resp.result # <<>>
             /\ i * limit < coll.requests[i].resp.total
       /\ coll.status = "loop" =>
             /\ coll.page = n + 1
             /\ n >= 1 =>
                   /\ LastRequest.resp.kind = "ok"
                   /\ LastRequest.resp.result # <<>>
                   /\ n * limit < LastRequest.resp.total
             /\ n < MaxOfSet({1, CeilDiv(MaxTotal, limit)})
       /\ coll.status # "loop" => n >= 1
       /\ n <= MaxOfSet({1, CeilDiv(MaxOfSet(reported), limit)})

\* A total of 100 is collected in exactly ceil(100 / 50) = 2 requests.
C9_Witness ==
    /\ coll.status = "returned"
    /\ Len(coll.requests) = 2
    /\ coll.requests[1].resp.total = 100
    /\ LastRequest.resp.kind = "ok"

---------------------------------------------------------------------------
(* telegram_send_many on its own, on any text and chunk size. *)

Chars == {"a", NL}

InitSend ==
    /\ text \in SeqsUpTo(Chars, MaxTextLen)
    /\ max_len \in 1..MaxChunk
    /\ tlines = <<>> /\ li = 1 /\ chunk = NoChunk /\ sent = <<>>
    /\ tpc = "split"
    /\ coll = CollInit /\ SeatsIdle /\ RankIdle /\ ScrapeIdle

SplitText ==
    /\ tpc = "split"
    /\ tlines' = SplitLines(text)
    /\ tpc' = "loop"
    /\ UNCHANGED <<text, max_len, li, chunk, sent>>
    /\ UNCHANGED <<seatvars, coll, rankvars, scrapevars>>

SendLine ==
    /\ tpc = "loop"
    /\ li <= Len(tlines)
    /\ LET r == LineStep(chunk, sent, tlines[li], max_len)
       IN chunk' = r.chunk /\ sent' = r.sent
    /\ li' = li + 1
    /\ UNCHANGED <<text, max_len, tlines, tpc>>
    /\ UNCHANGED <<seatvars, coll, rankvars, scrapevars>>

SendRest ==
    /\ tpc = "loop"
    /\ li > Len(tlines)
    /\ sent' = IF chunk.buf # <<>> THEN Append(sent, JoinLines(chunk.buf))
               ELSE sent
    /\ tpc' = "done"
    /\ UNCHANGED <<text, max_len, tlines, li, chunk>>
    /\ UNCHANGED <<seatvars, coll, rankvars, scrapevars>>

NextSend == SplitText \/ SendLine \/ SendRest

SpecSend == InitSend /\ [][NextSend]_vars

\* chunk.split("\n"): the lines a chunk is made of.
RECURSIVE SplitOnNL(_, _)
SplitOnNL(t, line) ==
    IF t = <<>> THEN <<line>>
    ELSE IF Head(t) = NL THEN <<line>> \o SplitOnNL(Tail(t), <<>>)
    ELSE SplitOnNL(Tail(t), Append(line, Head(t)))

LinesSent == Concat([i \in 1..Len(sent) |-> SplitOnNL(sent[i], <<>>)])

\* C8 as stated: every chunk sent is at most max_len characters long, and the
\* chunks, in order, are made of the lines of the text, each line once.
C8_ChunksWithinMaxLen ==
    /\ \A i \in 1..Len(sent) : Len(sent[i]) <= max_len
    /\ tpc = "done" => LinesSent = tlines

\* C8 amended: every chunk sent is at most max_len characters long unless it
\* is a single line that is itself longer than max_len; the chunks, in order,
\* are made of the lines of the text, each line once.
C8_ChunksWithinMaxLenOrOneLine ==
    /\ \A i \in 1..Len(sent) :
          \/ Len(sent[i]) <= max_len
          \/ NL \notin Range(sent[i])
    /\ tpc = "done" => LinesSent = tlines /\ tlines = SplitLines(text)
    /\ tpc = "loop" =>
          LinesSent \o chunk.buf = SubSeq(tlines, 1, li - 1)

\* Three lines sent as two chunks, the first of them holding two lines.
C8_Witness ==
    /\ tpc = "done"
    /\ Len(tlines) = 3
    /\ Len(sent) = 2
    /\ NL \in Range(sent[1])

---------------------------------------------------------------------------
(* The sort of main on its own, on any list scrape may return. *)

Scores ==
    { NoScore, Score(None, 5), Score(Num(50), 0), Score(Num(35), 2),
      Score(Num(30), 2), Score(Num(48), 500), Score(Num(50), -3) }

\* The shows of a list have distinct events; event_id is the position in the
\* list scrape returned.
InitRank ==
    /\ \E ss \in SeqsUpTo(Scores, MaxEvents) :
          scraped = [i \in 1..Len(ss) |-> [event_id |-> i, score |-> ss[i]]]
    /\ ranked = <<>>
    /\ rpc = "sort"
    /\ coll = CollInit /\ SeatsIdle /\ SendIdle /\ ScrapeIdle

MainSort ==
    /\ rpc = "sort"
    /\ ranked' = SortShows(scraped)
    /\ rpc' = "done"
    /\ UNCHANGED scraped
    /\ UNCHANGED <<seatvars, coll, sendvars, scrapevars>>

NextRank == MainSort

SpecRank == InitRank /\ [][NextRank]_vars

\* rankScore as the claim gives it: 0.0 without a score or a raw average,
\* else (votes * average + 20 * 3.5) / (votes + 20) with votes = max(count, 0).
RankScore(show) ==
    IF show.score = NoScore \/ show.score.average.t = "none" THEN Frac(0, 1)
    ELSE LET votes == IF show.score.count > 0 THEN show.score.count ELSE 0
         IN Frac(votes * show.score.average.v + 20 * 35, votes + 20)

\* C6: the ranked list is a permutation of the list scrape returned, rankScore
\* does not increase along it, and two shows of equal rankScore are in their
\* order of discovery.
C6_StableDescendingPermutation ==
    rpc = "done" =>
        /\ Len(ranked) = Len(scraped)
        /\ \A i \in 1..Len(scraped) :
              Cardinality({j \in 1..Len(ranked) : ranked[j] = scraped[i]}) = 1
        /\ \A i, j \in 1..Len(ranked) :
              i < j =>
                 /\ ~FracLess(RankScore(ranked[i]), RankScore(ranked[j]))
                 /\ FracEq(RankScore(ranked[i]), RankScore(ranked[j]))
                       => ranked[i].event_id < ranked[j].event_id

\* Two shows tie at 3.5 (with different vote counts) and keep their order
\* behind a better show that was discovered last.
C6_Witness ==
    /\ rpc = "done"
    /\ Len(ranked) = 3
    /\ ranked[1].event_id = 3
    /\ FracEq(RankScore(ranked[2]), RankScore(ranked[3]))
    /\ RankScore(ranked[2]) # RankScore(ranked[3])

---------------------------------------------------------------------------
(* scrape, against an upstream that answers each request with any response: *)
(* one action per request.                                                  *)

\* The URLs discovered: distinct shows, each named by its event id. The id 0
\* is one extract_event_id gives that scrape passes over.
UrlLists ==
    { SortedSet(S) : S \in {T \in SUBSET (0..MaxShows) : Cardinality(T) <= MaxShows} }

\* The run's upstream lists at most MaxSessions sessions in all.
SessionsListed ==
    LET RECURSIVE Sum(_)
        Sum(S) == IF S = {} THEN 0
                  ELSE LET x == CHOOSE y \in S : TRUE IN x.n + Sum(S \ {x})
    IN Sum({x \in log : x.kind = "sessions"})

ScrapeSeats ==
    <<Seat(IntId(1), Num(30), Cur("USD")), Seat(IntId(2), Num(10), Cur("IRR")),
      Seat(IntId(3), Num(10), Cur("IRR"))>>
ScrapeDocs == { <<>>, <<OneRow(ScrapeSeats)>>, <<OneRow(<<Seat(MissingId, None, NoCur)>>)>> }
ScrapeResponses ==
    { HttpError, NoJson, Page(<<>>, 0), Page(<<Rec(IntId(1), 3)>>, 100),
      Page(<<Rec(IntId(1), 3), Rec(IntId(2), 4), Rec(IntId(3), 0)>>, 3),
      Page(<<BadRecord>>, 1) }
ScrapeScores == {NoScore, Score(Num(48), 500)}

InitScrape ==
    /\ pc = "discover" /\ show_urls = <<>> /\ ui = 1
    /\ cur = CurInit(0) /\ shows = <<>> /\ log = {}
    /\ coll = CollInit /\ SeatsIdle /\ SendIdle /\ RankIdle

Others == <<seatvars, sendvars, rankvars>>

\* The except of scrape that ends the run instead of the iteration.
SkipShowEndsRun ==
    /\ pc' = "done"
    /\ ui' = ui + 1
    /\ UNCHANGED <<cur, shows>>

\* continue, and the except clause (which logs and continues): on to the
\* next URL, nothing appended.
SkipShow ==
    /\ pc' = "next"
    /\ ui' = ui + 1
    /\ UNCHANGED <<cur, shows>>

\* http_get(s, MAIN_URL) outside the try: a failure ends the run.
Discover ==
    /\ pc = "discover"
    /\ \/ pc' = "crashed" /\ UNCHANGED show_urls
       \/ \E urls \in UrlLists : show_urls' = urls /\ pc' = "next"
    /\ UNCHANGED <<ui, cur, shows, log, coll, Others>>

\* The head of the for loop, to the try.
NextShow ==
    /\ pc = "next"
    /\ IF ui > Len(show_urls) THEN
           pc' = "done" /\ UNCHANGED <<ui, cur>>
       ELSE IF show_urls[ui] = 0 THEN
           ui' = ui + 1 /\ UNCHANGED <<pc, cur>>
       ELSE
           cur' = CurInit(show_urls[ui]) /\ pc' = "page" /\ UNCHANGED ui
    /\ UNCHANGED <<show_urls, shows, log, coll, Others>>

\* show_html = http_get(s, show_url).text, with or without a UUID in it.
FetchShowPage ==
    /\ pc = "page"
    /\ \/ /\ log' = log \cup {LogEntry(cur.event, "show_page", 0, "http_error")}
          /\ SkipShow
       \/ \E u \in BOOLEAN :
             /\ log' = log \cup {LogEntry(cur.event, "show_page", 0, "ok")}
             /\ cur' = [cur EXCEPT !.uuid = u]
             /\ pc' = "sessions"
             /\ UNCHANGED <<ui, shows>>
    /\ UNCHANGED <<show_urls, coll, Others>>

\* fetch_sessions, the filter and the skip of a show left without sessions.
SessionsFetched(rows) ==
    LET kept == FilterSessions([i \in 1..Len(rows) |-> SessionInfo(i, rows[i])])
    IN /\ log' = log \cup
              {[LogEntry(cur.event, "sessions", 0, "ok")
                  EXCEPT !.n = Len(rows), !.open = Len(kept)]}
       /\ IF kept = <<>> THEN SkipShow
          ELSE /\ cur' = [cur EXCEPT !.sessions = kept]
               /\ pc' = IF cur.uuid THEN "score" ELSE "seatmap"
               /\ UNCHANGED <<ui, shows>>

FetchSessions ==
    /\ pc = "sessions"
    /\ \/ /\ log' = log \cup {LogEntry(cur.event, "sessions", 0, "http_error")}
          /\ SkipShow
       \/ /\ log' = log \cup {LogEntry(cur.event, "sessions", 0, "bad_data")}
          /\ SkipShow
       \/ \E rows \in SeqsUpTo(BOOLEAN, MaxSessions - SessionsListed) :
             SessionsFetched(rows)
    /\ UNCHANGED <<show_urls, coll, Others>>

\* score = fetch_score(s, event_uuid) if event_uuid else None
FetchScore ==
    /\ pc = "score"
    /\ \/ /\ log' = log \cup {LogEntry(cur.event, "score", 0, "http_error")}
          /\ SkipShow
       \/ \E sc \in ScrapeScores :
             /\ log' = log \cup {LogEntry(cur.event, "score", 0, "ok")}
             /\ cur' = [cur EXCEPT !.score = sc]
             /\ pc' = "seatmap"
             /\ UNCHANGED <<ui, shows>>
    /\ UNCHANGED <<show_urls, coll, Others>>

\* sess.seat_summary = <the summary>, then the next session or, after the
\* last one, shows.append(ShowInfo(...)) and the next URL.
SessionDone(sm) ==
    LET c == [cur EXCEPT !.sessions[cur.k].seat_summary = sm] IN
    IF cur.k = Len(cur.sessions) THEN
        /\ shows' = Append(shows, ShowInfo(c))
        /\ cur' = c
        /\ pc' = "next"
        /\ ui' = ui + 1
    ELSE
        /\ cur' = [c EXCEPT !.k = @ + 1]
        /\ pc' = "seatmap"
        /\ UNCHANGED <<ui, shows>>

\* build_session_seat_summary up to the call of fetch_seat_states.
FetchSeatmap ==
    /\ pc = "seatmap"
    /\ LET sid == cur.sessions[cur.k].id IN
       \/ /\ log' = log \cup {LogEntry(cur.event, "seatmap", sid, "http_error")}
          /\ SkipShow
          /\ UNCHANGED coll
       \/ /\ log' = log \cup {LogEntry(cur.event, "seatmap", sid, "ok")}
          /\ SessionDone(NoSummary)
          /\ UNCHANGED coll
       \/ \E doc \in ScrapeDocs :
             LET r == SeatmapIndex(doc) IN
             IF r.raised THEN
                 /\ log' = log \cup {LogEntry(cur.event, "seatmap", sid, "bad_data")}
                 /\ SkipShow
                 /\ UNCHANGED coll
             ELSE IF r.idx = <<>> THEN
                 /\ log' = log \cup {LogEntry(cur.event, "seatmap", sid, "ok")}
                 /\ SessionDone(NoSummary)
                 /\ UNCHANGED coll
             ELSE
                 /\ log' = log \cup {LogEntry(cur.event, "seatmap", sid, "ok")}
                 /\ cur' = [cur EXCEPT !.idx = r.idx]
                 /\ coll' = CollInit
                 /\ pc' = "seat_states"
                 /\ UNCHANGED <<ui, shows>>
    /\ UNCHANGED <<show_urls, Others>>

\* One page of fetch_seat_states (whose locals end with the call) and, when
\* it returns, the summary.
FetchSeatStates ==
    /\ pc = "seat_states"
    /\ \E resp \in ScrapeResponses :
          LET c == PageStep(coll, resp)
              sid == cur.sessions[cur.k].id
              end == IF c.status # "raised" THEN "ok"
                     ELSE IF resp.kind = "http_error" THEN "http_error"
                     ELSE "bad_data"
              req == LogEntry(cur.event, "seat_states", sid, end)
          IN /\ coll' = IF c.status = "loop" THEN c ELSE CollInit
             /\ IF c.status = "loop" THEN
                    /\ log' = log \cup {req}
                    /\ UNCHANGED <<pc, ui, cur, shows>>
                ELSE IF c.status = "raised" THEN
                    /\ log' = log \cup {req}
                    /\ SkipShow
                ELSE
                    /\ log' = log \cup
                          {req, [LogEntry(cur.event, "summary", sid, "ok")
                                    EXCEPT !.idx = cur.idx, !.states = c.states]}
                    /\ SessionDone(SummarizeSessionSeats(cur.idx, c.states))
    /\ UNCHANGED <<show_urls, Others>>

Next ==
    \/ Discover \/ NextShow \/ FetchShowPage \/ FetchSessions \/ FetchScore
    \/ FetchSeatmap \/ FetchSeatStates

Spec == InitScrape /\ [][Next]_vars

---------------------------------------------------------------------------
(* Claims about scrape (checked under Spec). *)

ShowEvents == {shows[i].event_id : i \in 1..Len(shows)}
Discovered == {show_urls[i] : i \in 1..Len(show_urls)} \ {0}
Requests(e) == {x \in log : x.event = e /\ x.kind # "summary"}
HttpFailed(e) == \E x \in Requests(e) : x.end = "http_error"
Raised(e) == \E x \in Requests(e) : x.end # "ok"
OpenSessions(e) ==
    \E x \in Requests(e) : x.kind = "sessions" /\ x.end = "ok" /\ x.open > 0
InProgress(e) == pc \notin {"next", "done"} /\ cur.event = e

\* C2: an event with a transport failure in one of its fetches is absent from
\* the result; the run does not abort: once the discovery has succeeded it
\* never crashes, and at its end every discovered event has been processed;
\* and every event, whatever happened to the events before it, is in the
\* result exactly if none of its own requests raised and it has a session that
\* is not sold out, the result being in discovery order.
C2_FailedEventSkippedOthersKept ==
    /\ \A e \in Discovered : HttpFailed(e) => e \notin ShowEvents
    /\ pc = "crashed" => log = {} /\ show_urls = <<>>
    /\ pc = "done" =>
          /\ ui = Len(show_urls) + 1
          /\ \A e \in Discovered :
                /\ \E x \in Requests(e) : x.kind = "show_page"
                /\ e \in ShowEvents <=> (~Raised(e) /\ OpenSessions(e))
          /\ [i \in 1..Len(shows) |-> shows[i].event_id]
                = SelectSeq(show_urls, LAMBDA e : e \in ShowEvents)

\* The first event is lost to a transport failure of a seat-states request,
\* after which the second event is scraped into the result.
C2_Witness ==
    /\ pc = "done"
    /\ Len(show_urls) = 2
    /\ \E x \in Requests(show_urls[1]) :
          x.kind = "seat_states" /\ x.end = "http_error"
    /\ ShowEvents = {show_urls[2]}

\* C3: for an event whose sessions are all sold out (or that has none), no
\* score, seatmap or seat-state request is ever issued and the event is not in
\* the result; every event of the result has at least one session, and none
\* of its sessions is sold out.
C3_SoldOutEventShortCircuits ==
    /\ \A x \in log :
          (x.kind = "sessions" /\ x.end = "ok" /\ x.open = 0) =>
              /\ x.event \notin ShowEvents
              /\ \A y \in Requests(x.event) :
                    y.kind \notin {"score", "seatmap", "seat_states"}
              /\ ~InProgress(x.event)
    /\ \A i \in 1..Len(shows) :
          /\ shows[i].sessions # <<>>
          /\ \A j \in 1..Len(shows[i].sessions) :
                ~shows[i].sessions[j].is_sold_out

\* An event whose only session is sold out was passed over, and another event
\* is in the result.
C3_Witness ==
    /\ pc = "done"
    /\ \E x \in log : x.kind = "sessions" /\ x.n = 1 /\ x.open = 0
    /\ shows # <<>>

\* The prices the claim speaks of: the numeric prices of the seats of idx that
\* are absent from the state mapping st.
AvailablePrices(idx, st) ==
    {idx[i].price.v : i \in {j \in 1..Len(idx) :
        idx[j].seat_id \notin DOMAIN st /\ idx[j].price.t = "num"}}

PriceStatsOf(sm, idx, st) ==
    LET u == sm.available_unique_prices IN
    /\ Range(u) = AvailablePrices(idx, st)
    /\ \A i \in 1..(Len(u) - 1) : u[i] < u[i + 1]
    /\ IF u = <<>>
       THEN sm.available_min_price = None /\ sm.available_max_price = None
       ELSE /\ sm.available_min_price = Num(u[1])
            /\ sm.available_max_price = Num(u[Len(u)])

\* C5: the price statistics of every summary in the result are those of the
\* numeric prices of the AVAILABLE seats of its seatmap: the unique list is
\* these prices ascending, each once, min and max are its ends, and all three
\* are empty (null, null, []) when no seat is available; a session whose
\* summary was computed is in the result with that summary, with its event,
\* unless a request of the event raised.
C5_PriceStatsOfAvailableSeats ==
    /\ \A i \in 1..Len(shows) : \A j \in 1..Len(shows[i].sessions) :
          LET sess == shows[i].sessions[j] IN
          sess.seat_summary # NoSummary =>
              \E x \in log :
                 /\ x.kind = "summary" /\ x.event = shows[i].event_id
                 /\ x.session = sess.id
                 /\ PriceStatsOf(sess.seat_summary, x.idx, x.states)
    /\ pc = "done" =>
          \A x \in log :
             (x.kind = "summary" /\ ~Raised(x.event)) =>
                 \E i \in 1..Len(shows) : \E j \in 1..Len(shows[i].sessions) :
                    /\ shows[i].event_id = x.event
                    /\ shows[i].sessions[j].id = x.session
                    /\ PriceStatsOf(shows[i].sessions[j].seat_summary,
                                    x.idx, x.states)

\* An event of the result has a session without any available seat (null
\* prices) and a session whose available seats have prices, while a sold seat
\* has a higher price.
C5_Witness ==
    /\ pc = "done"
    /\ \E i \in 1..Len(shows) : \E j, k \in 1..Len(shows[i].sessions) :
          LET a == shows[i].sessions[j].seat_summary
              b == shows[i].sessions[k].seat_summary
          IN /\ a # NoSummary /\ b # NoSummary
             /\ a.available_seats = 0 /\ a.total_seats_in_map = 3
             /\ a.available_min_price = None
             /\ a.available_unique_prices = <<>>
             /\ b.sold_seats_state_3 = 1
             /\ b.available_max_price = Num(10)

====
